---- MODULE Spec2Model ----
(***************************************************************************)
(* A model of the WireGuard GitHub action: the setup step (src/main.ts),   *)
(* the post-job teardown step (src/cleanup.ts) and the configuration       *)
(* transformer the setup step applies to its input (decodeConfig, the      *)
(* AllowedIPs override and removeDnsConfig).                               *)
(*                                                                         *)
(* Text is a sequence of one-character strings, so that the regular        *)
(* expressions, String.prototype.replace and the base64 decoder of the     *)
(* source are computed character by character.                             *)
(***************************************************************************)
EXTENDS Naturals, Sequences, FiniteSets

VARIABLES
  phase,            \* which step runs, or ran last: "none", "main", "cleanup"
  pc,               \* the position inside that step; "done" when it has returned
  runs,             \* number of steps started so far
  wgConfig,         \* main.ts: input wg-config-file
  allowedIps,       \* main.ts: input allowed-ips
  keepDnsInput,     \* main.ts: input keep-dns, as the string getInput returns
  configContent,    \* main.ts: the working content
  decoded,          \* history: configContent after decodeConfig
  overridden,       \* history: configContent after the AllowedIPs override
  iface,            \* the host: network interface wg0 exists
  etcConf,          \* the host: /etc/wireguard/wg0.conf
  tmpConf,          \* the host: /tmp/wg0.conf
  interfaceExists,  \* cleanup.ts: result of checkInterfaceExists
  configExists,     \* cleanup.ts: result of checkFileExists
  commands,         \* history: the external commands of this step, with outcome
  failedMsg,        \* core.setFailed of this step, or NoMessage
  warnings,         \* core.warning messages of this step
  savedState,       \* core.saveState("wireguard-started", "true") was called
  honest,           \* history: every probe of this step reported the true state
  installed,        \* history: EffectiveConfig of the last successful mv
  plain,            \* history: the text the input was drawn from
  encoded,          \* history: the input is the base64 encoding of plain
  pass,             \* how many times the transformer is being applied (1 or 2)
  firstOut          \* history: the transformer's output of pass 1

vars == <<phase, pc, runs, wgConfig, allowedIps, keepDnsInput, configContent,
          decoded, overridden, iface, etcConf, tmpConf, interfaceExists,
          configExists, commands, failedMsg, warnings, savedState, honest,
          installed, plain, encoded, pass, firstOut>>

(***************************************************************************)
(* Characters.                                                             *)
(***************************************************************************)

\* The grave accent (code 96), which a TLA+ string literal cannot hold.
Backtick == "U+0060"

\* The printable ASCII characters, code 32 (space) to code 126 (tilde), in order.
Printable ==
  <<" ", "!", "\"", "#", "$", "%", "&", "'", "(", ")", "*", "+", ",", "-", ".", "/",
    "0", "1", "2", "3", "4", "5", "6", "7", "8", "9", ":", ";", "<", "=", ">", "?",
    "@", "A", "B", "C", "D", "E", "F", "G", "H", "I", "J", "K", "L", "M", "N", "O",
    "P", "Q", "R", "S", "T", "U", "V", "W", "X", "Y", "Z", "[", "\\", "]", "^", "_",
    Backtick, "a", "b", "c", "d", "e", "f", "g", "h", "i", "j", "k", "l", "m", "n", "o",
    "p", "q", "r", "s", "t", "u", "v", "w", "x", "y", "z", "{", "|", "}", "~">>

\* What Buffer.toString("utf-8") gives for a byte that is no character of the
\* model's alphabet (U+FFFD for an invalid sequence, or a character outside ASCII).
Replacement == "<U+FFFD>"

\* The code of a character (the UTF-8 byte of an ASCII character).
CharCode ==
  [c \in {Printable[i] : i \in 1..Len(Printable)} \cup {"\t", "\n", "\r"} |->
     IF c = "\t" THEN 9
     ELSE IF c = "\n" THEN 10
     ELSE IF c = "\r" THEN 13
     ELSE 31 + (CHOOSE i \in 1..Len(Printable) : Printable[i] = c)]

\* The character of a byte, as Buffer.toString("utf-8") decodes it.
ByteChar ==
  [b \in 0..255 |->
     IF b = 9 THEN "\t"
     ELSE IF b = 10 THEN "\n"
     ELSE IF b = 13 THEN "\r"
     ELSE IF b >= 32 /\ b <= 126 THEN Printable[b - 31]
     ELSE Replacement]

\* The base64 alphabet (RFC 4648), values 0..63 in order.
B64Alphabet ==
  <<"A", "B", "C", "D", "E", "F", "G", "H", "I", "J", "K", "L", "M", "N", "O", "P",
    "Q", "R", "S", "T", "U", "V", "W", "X", "Y", "Z", "a", "b", "c", "d", "e", "f",
    "g", "h", "i", "j", "k", "l", "m", "n", "o", "p", "q", "r", "s", "t", "u", "v",
    "w", "x", "y", "z", "0", "1", "2", "3", "4", "5", "6", "7", "8", "9", "+", "/">>

\* The decoder's table: the value of a legal character, 64 for any other. Node's
\* decoder also accepts the URL-safe alphabet ("-" for "+", "_" for "/").
Unbase64(c) ==
  IF c = "-" THEN 62
  ELSE IF c = "_" THEN 63
  ELSE IF \E i \in 1..64 : B64Alphabet[i] = c
       THEN (CHOOSE i \in 1..64 : B64Alphabet[i] = c) - 1
       ELSE 64

\* ECMAScript LineTerminator (restricted to the alphabet): what "." does not match
\* and what "^" with the m flag matches after.
IsLineTerminator(c) == c \in {"\n", "\r"}

\* ECMAScript \s (restricted to the alphabet); it includes the line terminators.
IsWhiteSpace(c) == c \in {" ", "\t", "\n", "\r"}

(***************************************************************************)
(* Text helpers.                                                           *)
(***************************************************************************)

\* s[from..] starts with the text t
StartsWithAt(s, from, t) ==
  /\ from + Len(t) - 1 <= Len(s)
  /\ \A k \in 1..Len(t) : s[from + k - 1] = t[k]

\* String.prototype.includes
Includes(s, t) == \E i \in 1..(Len(s) + 1) : StartsWithAt(s, i, t)

\* s without its first n characters
Drop(s, n) == SubSeq(s, n + 1, Len(s))

\* \s* from i on (greedy): the index of the first character that is no white space,
\* Len(s) + 1 when there is none
SkipWhiteSpace(s, i) ==
  CHOOSE j \in i..(Len(s) + 1) :
    /\ j = Len(s) + 1 \/ ~IsWhiteSpace(s[j])
    /\ \A k \in i..(j - 1) : IsWhiteSpace(s[k])

\* .* from i on (greedy): the index of the first line terminator, Len(s) + 1 when
\* there is none
LineEnd(s, i) ==
  CHOOSE j \in i..(Len(s) + 1) :
    /\ j = Len(s) + 1 \/ IsLineTerminator(s[j])
    /\ \A k \in i..(j - 1) : ~IsLineTerminator(s[k])

(***************************************************************************)
(* Base64 (Buffer.from(text, "base64").toString("utf-8"), main.ts line 82). *)
(***************************************************************************)

RECURSIVE SextetsFrom(_, _)
\* Node's decoder skips every character that is not of the alphabet and stops at
\* the first "=": the values of the legal characters of s[i..] before it.
SextetsFrom(s, i) ==
  IF i > Len(s) \/ s[i] = "=" THEN <<>>
  ELSE IF Unbase64(s[i]) < 64 THEN <<Unbase64(s[i])>> \o SextetsFrom(s, i + 1)
  ELSE SextetsFrom(s, i + 1)

RECURSIVE SextetsToBytes(_)
\* Four values give three bytes; a last group of three gives two, of two gives one,
\* and a single left-over value gives none.
SextetsToBytes(v) ==
  IF Len(v) < 2 THEN <<>>
  ELSE IF Len(v) = 2 THEN <<v[1] * 4 + v[2] \div 16>>
  ELSE IF Len(v) = 3 THEN <<v[1] * 4 + v[2] \div 16, (v[2] % 16) * 16 + v[3] \div 4>>
  ELSE <<v[1] * 4 + v[2] \div 16, (v[2] % 16) * 16 + v[3] \div 4, (v[3] % 4) * 64 + v[4]>>
       \o SextetsToBytes(Drop(v, 4))

\* Buffer.from(s, "base64"): never throws
Base64Decode(s) == SextetsToBytes(SextetsFrom(s, 1))

\* Buffer.toString("utf-8"), byte by byte: the model's texts are ASCII, and a byte
\* outside the alphabet becomes Replacement
Utf8ToString(bytes) == [k \in 1..Len(bytes) |-> ByteChar[bytes[k]]]

RECURSIVE BytesToBase64(_)
\* The padded RFC 4648 encoding of a byte sequence
BytesToBase64(b) ==
  IF b = <<>> THEN <<>>
  ELSE IF Len(b) = 1
    THEN <<B64Alphabet[b[1] \div 4 + 1], B64Alphabet[(b[1] % 4) * 16 + 1], "=", "=">>
  ELSE IF Len(b) = 2
    THEN <<B64Alphabet[b[1] \div 4 + 1], B64Alphabet[(b[1] % 4) * 16 + b[2] \div 16 + 1],
           B64Alphabet[(b[2] % 16) * 4 + 1], "=">>
  ELSE <<B64Alphabet[b[1] \div 4 + 1], B64Alphabet[(b[1] % 4) * 16 + b[2] \div 16 + 1],
         B64Alphabet[(b[2] % 16) * 4 + b[3] \div 64 + 1], B64Alphabet[(b[3] % 64) + 1]>>
       \o BytesToBase64(Drop(b, 3))

\* What `base64 -w 0 < your-wireguard.conf` prints for an ASCII text
Base64Encode(text) == BytesToBase64([k \in 1..Len(text) |-> CharCode[text[k]]])

(***************************************************************************)
(* The regular expressions /^KEY\s*=.*/m and /^DNS\s*=.*\n?/gm.            *)
(***************************************************************************)

Marker == <<"[", "I", "n", "t", "e", "r", "f", "a", "c", "e", "]">>
KeyAllowedIPs == <<"A", "l", "l", "o", "w", "e", "d", "I", "P", "s">>
KeyDNS == <<"D", "N", "S">>
\* the replacement template's fixed part: `AllowedIPs = ${allowedIps}`
AllowedIPsPrefix == KeyAllowedIPs \o <<" ", "=", " ">>

\* "^" under the m flag: at the start of the text or right after a line terminator
AtLineStart(s, i) == i = 1 \/ IsLineTerminator(s[i - 1])

\* The match of /^key\s*=.*/m that starts at i: the index after its last character,
\* or 0 when there is none. \s* is greedy and "=" is no white space, so the match
\* is unique; "." stops at a line terminator.
AssignMatchEnd(s, i, key) ==
  IF AtLineStart(s, i) /\ StartsWithAt(s, i, key)
  THEN LET j == SkipWhiteSpace(s, i + Len(key))
       IN  IF j <= Len(s) /\ s[j] = "="
           THEN LineEnd(s, j + 1)
           ELSE 0
  ELSE 0

\* The start of the first match of /^key\s*=.*/m at or after from, 0 when none
FirstMatchFrom(s, from, key) ==
  IF \E i \in from..Len(s) : AssignMatchEnd(s, i, key) # 0
  THEN CHOOSE i \in from..Len(s) :
         /\ AssignMatchEnd(s, i, key) # 0
         /\ \A k \in from..(i - 1) : AssignMatchEnd(s, k, key) = 0
  ELSE 0

RECURSIVE ExpandTemplate(_, _, _, _, _)
\* ECMAScript GetSubstitution for a pattern without capture groups: in the
\* replacement text "$$" stands for "$", "$&" for the match, "$`" for the text before
\* the match and "$'" for the text after it; any other "$" is literal.
ExpandTemplate(template, k, matched, s, position) ==
  IF k > Len(template) THEN <<>>
  ELSE IF template[k] = "$" /\ k < Len(template) /\ template[k + 1] = "$"
    THEN <<"$">> \o ExpandTemplate(template, k + 2, matched, s, position)
  ELSE IF template[k] = "$" /\ k < Len(template) /\ template[k + 1] = "&"
    THEN matched \o ExpandTemplate(template, k + 2, matched, s, position)
  ELSE IF template[k] = "$" /\ k < Len(template) /\ template[k + 1] = Backtick
    THEN SubSeq(s, 1, position - 1)
         \o ExpandTemplate(template, k + 2, matched, s, position)
  ELSE IF template[k] = "$" /\ k < Len(template) /\ template[k + 1] = "'"
    THEN Drop(s, position - 1 + Len(matched))
         \o ExpandTemplate(template, k + 2, matched, s, position)
  ELSE <<template[k]>> \o ExpandTemplate(template, k + 1, matched, s, position)

GetSubstitution(matched, s, position, template) ==
  ExpandTemplate(template, 1, matched, s, position)

\* s.replace(/^key\s*=.*/m, template): the first match only (no g flag)
ReplaceFirst(s, key, template) ==
  LET i == FirstMatchFrom(s, 1, key)
      e == AssignMatchEnd(s, i, key)
  IN  IF i = 0 THEN s
      ELSE SubSeq(s, 1, i - 1)
           \o GetSubstitution(SubSeq(s, i, e - 1), s, i, template)
           \o Drop(s, e - 1)

RECURSIVE RemoveAllFrom(_, _, _)
\* s.replace(/^key\s*=.*\n?/gm, "") from index from on: every match is removed and
\* the search goes on in s right after the match
RemoveAllFrom(s, from, key) ==
  LET i == FirstMatchFrom(s, from, key)
      e0 == AssignMatchEnd(s, i, key)
      e == IF e0 <= Len(s) /\ s[e0] = "\n" THEN e0 + 1 ELSE e0
  IN  IF i = 0 THEN Drop(s, from - 1)
      ELSE SubSeq(s, from, i - 1) \o RemoveAllFrom(s, e, key)

(***************************************************************************)
(* The configuration transformer of main.ts.                               *)
(***************************************************************************)

\* main.ts removeDnsConfig
removeDnsConfig(content) ==
  IF FirstMatchFrom(content, 1, KeyDNS) # 0
  THEN RemoveAllFrom(content, 1, KeyDNS)
  ELSE content

\* decodeConfig without the "[Interface]" test
decodeConfigUnchecked(config) == Utf8ToString(Base64Decode(config))

\* main.ts decodeConfig
decodeConfig(config) ==
  LET text == Utf8ToString(Base64Decode(config))
  IN  IF Includes(text, Marker) THEN text ELSE config

\* main.ts lines 41-44: `if (allowedIps) content = content.replace(...)`
overrideAllowedIps(content, override) ==
  IF override # <<>>
  THEN ReplaceFirst(content, KeyAllowedIPs, AllowedIPsPrefix \o override)
  ELSE content

\* main.ts line 23: `core.getInput("keep-dns") === "true"`
keepDns(input) == input = "true"

\* main.ts lines 47-49
stripDns(content, input) ==
  IF ~keepDns(input) THEN removeDnsConfig(content) ELSE content

\* EffectiveConfig: main.ts lines 38-49
Transform(config, override, input) ==
  stripDns(overrideAllowedIps(decodeConfig(config), override), input)

(***************************************************************************)
(* The host and the runtime.                                               *)
(***************************************************************************)

\* Mode 0600 (octal), owner read/write only: writeFileSync's mode and chmod's 600
OwnerRW == 384

NoFile == [exists |-> FALSE, content |-> <<>>, mode |-> 0]
NoMessage == <<>>

\* The Error exec.exec rejects with when the command exits non-zero
ExecError(cmd) == <<"The process failed with a non-zero exit code", cmd>>
\* The Error core.getInput throws for a missing required input
InputRequired == <<"Input required and not supplied", "wg-config-file">>

\* how many steps (setup or teardown) a behaviour runs one after the other
MaxRuns == 3
\* how many fragments a plain input text is made of, at most
MaxFragments == 2

\* the line fragments the inputs of the transformer are made of
Fragments ==
  { Marker \o <<"\n">>,
    KeyDNS \o <<" ", "=", " ", "1", "\n">>,
    KeyDNS \o <<"=", "2", "\r", "\n">>,
    KeyDNS \o <<"\n">>,
    <<"=", "3", "\n">>,
    KeyAllowedIPs \o <<" ", "=", " ", "a", "\n">>,
    KeyAllowedIPs \o <<"=", "c">> }

RECURSIVE TextsOf(_)
\* the texts made of exactly n fragments
TextsOf(n) ==
  IF n = 0 THEN {<<>>}
  ELSE {f \o t : f \in Fragments, t \in TextsOf(n - 1)}

\* the plain texts the transformer is applied to
PlainTexts == UNION {TextsOf(n) : n \in 1..MaxFragments}

\* the values of the input allowed-ips
Overrides == {<<>>, <<"b">>, <<"$", "&">>}

\* the values of the input keep-dns
KeepDnsInputs == {"true", "false", ""}

\* a complete configuration, as the README shows one
SampleConfig ==
  Marker \o <<"\n">> \o KeyDNS \o <<" ", "=", " ", "1", "\n">>
  \o KeyAllowedIPs \o <<" ", "=", " ", "a", "\n">>

\* the values of the input wg-config-file of a setup step; <<>> is a missing input
SetupConfigs == {<<>>, SampleConfig, Base64Encode(SampleConfig)}

\* the values of allowed-ips of a setup step
SetupOverrides == {<<>>, <<"b">>}

hostVars == <<iface, etcConf, tmpConf>>
inputVars == <<wgConfig, allowedIps, keepDnsInput>>
textVars == <<configContent, decoded, overridden>>
probeVars == <<interfaceExists, configExists, honest>>
ghostVars == <<plain, encoded, pass, firstOut>>

(***************************************************************************)
(* The setup step: main.ts run().                                          *)
(***************************************************************************)

\* the catch block of run(): every error reaching it is an Error
MainCatch(cause) ==
  /\ failedMsg' = <<"Action failed: ", cause>>
  /\ pc' = "done"

\* `await exec.exec(...)` whose failure is ignored: the step goes on
MainStepIgnoringFailure(at, cmd, ok, next) ==
  /\ phase = "main" /\ pc = at
  /\ commands' = Append(commands, [cmd |-> cmd, ok |-> ok])
  /\ pc' = next
  /\ UNCHANGED failedMsg

\* `await exec.exec(...)` inside the try block of run(): the command runs to its
\* end; a non-zero exit throws, which skips every later statement
MainStep(at, cmd, ok, next) ==
  /\ phase = "main" /\ pc = at
  /\ commands' = Append(commands, [cmd |-> cmd, ok |-> ok])
  /\ IF ok THEN pc' = next /\ UNCHANGED failedMsg
           ELSE MainCatch(ExecError(cmd))

\* A step starts: the three getInput calls; a missing wg-config-file throws
BeginMain ==
  /\ pc = "done" /\ runs < MaxRuns
  /\ runs' = runs + 1
  /\ phase' = "main"
  /\ wgConfig' \in SetupConfigs
  /\ allowedIps' \in SetupOverrides
  /\ keepDnsInput' \in {"true", "false"}
  /\ commands' = <<>> /\ warnings' = <<>> /\ savedState' = FALSE
  /\ configContent' = <<>> /\ decoded' = <<>> /\ overridden' = <<>>
  /\ interfaceExists' = FALSE /\ configExists' = FALSE /\ honest' = TRUE
  /\ IF wgConfig' = <<>>
     THEN MainCatch(InputRequired)
     ELSE pc' = "apt-update" /\ failedMsg' = NoMessage
  /\ UNCHANGED <<hostVars, installed, ghostVars>>

AptUpdate ==
  /\ \E ok \in BOOLEAN : MainStep("apt-update", "apt-get update", ok, "apt-install")
  /\ UNCHANGED <<phase, runs, inputVars, textVars, hostVars, probeVars, warnings,
                 savedState, installed, ghostVars>>

AptInstall ==
  /\ \E ok \in BOOLEAN : MainStep("apt-install", "apt-get install", ok, "decode")
  /\ UNCHANGED <<phase, runs, inputVars, textVars, hostVars, probeVars, warnings,
                 savedState, installed, ghostVars>>

\* main.ts line 38
Decode ==
  /\ phase = "main" /\ pc = "decode"
  /\ configContent' = decodeConfig(wgConfig)
  /\ decoded' = configContent'
  /\ pc' = "override"
  /\ UNCHANGED <<phase, runs, inputVars, overridden, hostVars, probeVars, commands,
                 failedMsg, warnings, savedState, installed, ghostVars>>

\* main.ts lines 41-44
Override ==
  /\ phase = "main" /\ pc = "override"
  /\ configContent' = overrideAllowedIps(configContent, allowedIps)
  /\ overridden' = configContent'
  /\ pc' = "strip"
  /\ UNCHANGED <<phase, runs, inputVars, decoded, hostVars, probeVars, commands,
                 failedMsg, warnings, savedState, installed, ghostVars>>

\* main.ts lines 47-49
StripDns ==
  /\ phase = "main" /\ pc = "strip"
  /\ configContent' = stripDns(configContent, keepDnsInput)
  /\ firstOut' = IF pass = 1 THEN configContent' ELSE firstOut
  /\ pc' = "mkdir"
  /\ UNCHANGED <<phase, runs, inputVars, decoded, overridden, hostVars, probeVars,
                 commands, failedMsg, warnings, savedState, installed, plain, encoded,
                 pass>>

Mkdir ==
  /\ \E ok \in BOOLEAN : MainStep("mkdir", "mkdir -p /etc/wireguard", ok, "write")
  /\ UNCHANGED <<phase, runs, inputVars, textVars, hostVars, probeVars, warnings,
                 savedState, installed, ghostVars>>

\* writeFileSync without the mode option: a new file gets 0666 & ~umask, 0644 (420)
\* under the usual umask 022
WrittenFileDefaultMode(old, content) ==
  [exists |-> TRUE, content |-> content,
   mode |-> IF old.exists THEN old.mode ELSE 420]

\* fs.writeFileSync(path, content, { mode: 0o600 }): the file is truncated and
\* written; the mode is given to a file the call creates, an existing file keeps its own
WrittenFile(old, content) ==
  [exists |-> TRUE, content |-> content,
   mode |-> IF old.exists THEN old.mode ELSE OwnerRW]

\* main.ts line 57. A failed write leaves the file as it was, or created and empty.
WriteTemp ==
  /\ \E ok \in BOOLEAN :
       /\ MainStep("write", "writeFileSync /tmp/wg0.conf", ok, "mv")
       /\ IF ok THEN tmpConf' = WrittenFile(tmpConf, configContent)
                ELSE tmpConf' \in {tmpConf, WrittenFile(tmpConf, <<>>)}
  /\ UNCHANGED <<phase, runs, inputVars, textVars, iface, etcConf, probeVars, warnings,
                 savedState, installed, ghostVars>>

\* a setup step in which chmod is left out: after the mv comes `wg-quick up`
MvWithoutChmod ==
  /\ \E ok \in BOOLEAN :
       /\ MainStep("mv", "mv /tmp/wg0.conf /etc/wireguard/wg0.conf", ok, "wg-up")
       /\ IF ok THEN /\ etcConf' = tmpConf
                     /\ tmpConf' = NoFile
                     /\ installed' = Transform(wgConfig, allowedIps, keepDnsInput)
                ELSE UNCHANGED <<etcConf, tmpConf, installed>>
  /\ UNCHANGED <<phase, runs, inputVars, textVars, iface, probeVars, warnings,
                 savedState, ghostVars>>

\* main.ts line 58: rename(2) within one file system; a failed mv changes nothing
Mv ==
  /\ \E ok \in BOOLEAN :
       /\ MainStep("mv", "mv /tmp/wg0.conf /etc/wireguard/wg0.conf", ok, "chmod")
       /\ IF ok THEN /\ etcConf' = tmpConf
                     /\ tmpConf' = NoFile
                     /\ installed' = Transform(wgConfig, allowedIps, keepDnsInput)
                ELSE UNCHANGED <<etcConf, tmpConf, installed>>
  /\ UNCHANGED <<phase, runs, inputVars, textVars, iface, probeVars, warnings,
                 savedState, ghostVars>>

\* main.ts line 59
Chmod ==
  /\ \E ok \in BOOLEAN :
       /\ MainStep("chmod", "chmod 600 /etc/wireguard/wg0.conf", ok, "wg-up")
       /\ IF ok THEN etcConf' = [etcConf EXCEPT !.mode = OwnerRW]
                ELSE UNCHANGED etcConf
  /\ UNCHANGED <<phase, runs, inputVars, textVars, iface, tmpConf, probeVars, warnings,
                 savedState, installed, ghostVars>>

\* main.ts line 63: wg-quick creates the interface; when it fails the interface is
\* as before, or left behind
WgUp ==
  /\ \E ok \in BOOLEAN :
       /\ MainStep("wg-up", "wg-quick up wg0", ok, "wg-show")
       /\ IF ok THEN iface' = TRUE ELSE iface' \in {iface, TRUE}
  /\ UNCHANGED <<phase, runs, inputVars, textVars, etcConf, tmpConf, probeVars,
                 warnings, savedState, installed, ghostVars>>

\* main.ts line 67
WgShow ==
  /\ \E ok \in BOOLEAN : MainStep("wg-show", "wg show", ok, "save")
  /\ UNCHANGED <<phase, runs, inputVars, textVars, hostVars, probeVars, warnings,
                 savedState, installed, ghostVars>>

\* main.ts line 70
SaveState ==
  /\ phase = "main" /\ pc = "save"
  /\ savedState' = TRUE
  /\ pc' = "done"
  /\ UNCHANGED <<phase, runs, inputVars, textVars, hostVars, probeVars, commands,
                 failedMsg, warnings, installed, ghostVars>>

(***************************************************************************)
(* The teardown step: cleanup.ts cleanup().                                *)
(***************************************************************************)

\* A step starts: cleanup.ts line 6
BeginCleanup ==
  /\ pc = "done" /\ runs < MaxRuns
  /\ runs' = runs + 1
  /\ phase' = "cleanup"
  /\ pc' = "probe-iface"
  /\ commands' = <<>> /\ warnings' = <<>> /\ failedMsg' = NoMessage
  /\ interfaceExists' = FALSE /\ configExists' = FALSE /\ honest' = TRUE
  /\ UNCHANGED <<inputVars, textVars, hostVars, savedState, installed, ghostVars>>

\* an early return when the interface is not found
AfterInterfaceProbeReturning(exists) == IF exists THEN "down" ELSE "done"

\* cleanup.ts lines 12-24: the `if (interfaceExists)` and what follows it
AfterInterfaceProbe(exists) == IF exists THEN "down" ELSE "probe-file"

\* cleanup.ts line 9 and checkInterfaceExists: `ip link show wg0` exits 0 only when
\* the interface exists; any failure of the probe reads as "does not exist"
ProbeInterface ==
  /\ phase = "cleanup" /\ pc = "probe-iface"
  /\ \E works \in BOOLEAN :
       LET result == iface /\ works IN
       /\ interfaceExists' = result
       /\ honest' = (honest /\ result = iface)
       /\ commands' = Append(commands, [cmd |-> "ip link show wg0", ok |-> result])
       /\ pc' = AfterInterfaceProbe(result)
  /\ UNCHANGED <<phase, runs, inputVars, textVars, hostVars, configExists, failedMsg,
                 warnings, savedState, installed, ghostVars>>

\* a failure of `wg-quick down` that is not caught where it happens
DownFailedUncaught(cause) ==
  /\ warnings' = Append(warnings, <<"Cleanup failed: ", cause>>)
  /\ pc' = "done"

\* cleanup.ts lines 17-21: the inner catch logs a warning and the step goes on
\* (exec.exec always rejects with an Error, so the `instanceof Error` test holds)
DownFailed(cause) ==
  /\ warnings' = Append(warnings, <<"Failed to stop WireGuard: ", cause>>)
  /\ pc' = "probe-file"

\* cleanup.ts lines 13-21: a failed `wg-quick down` may or may not have removed
\* the interface
Down ==
  /\ phase = "cleanup" /\ pc = "down"
  /\ \E ok \in BOOLEAN :
       /\ commands' = Append(commands, [cmd |-> "wg-quick down wg0", ok |-> ok])
       /\ IF ok THEN /\ iface' = FALSE
                     /\ pc' = "probe-file"
                     /\ UNCHANGED warnings
                ELSE /\ iface' \in {iface, FALSE}
                     /\ DownFailed(ExecError("wg-quick down wg0"))
  /\ UNCHANGED <<phase, runs, inputVars, textVars, etcConf, tmpConf, probeVars,
                 failedMsg, savedState, installed, ghostVars>>

\* cleanup.ts line 27 and checkFileExists: `sudo test -f` exits 0 only when the
\* file exists
ProbeFile ==
  /\ phase = "cleanup" /\ pc = "probe-file"
  /\ \E works \in BOOLEAN :
       LET result == etcConf.exists /\ works IN
       /\ configExists' = result
       /\ honest' = (honest /\ result = etcConf.exists)
       /\ commands' = Append(commands, [cmd |-> "test -f /etc/wireguard/wg0.conf",
                                        ok |-> result])
       /\ pc' = IF result THEN "rm" ELSE "done"
  /\ UNCHANGED <<phase, runs, inputVars, textVars, hostVars, interfaceExists,
                 failedMsg, warnings, savedState, installed, ghostVars>>

\* a catch block that fails the job
CleanupCatchFatal(cause) ==
  /\ failedMsg' = <<"Cleanup failed: ", cause>>
  /\ UNCHANGED warnings
  /\ pc' = "done"

\* cleanup.ts lines 37-43: the outer catch
CleanupCatch(cause) ==
  /\ warnings' = Append(warnings, <<"Cleanup failed: ", cause>>)
  /\ UNCHANGED failedMsg
  /\ pc' = "done"

\* cleanup.ts lines 28-31
Rm ==
  /\ phase = "cleanup" /\ pc = "rm"
  /\ \E ok \in BOOLEAN :
       /\ commands' = Append(commands, [cmd |-> "rm -f /etc/wireguard/wg0.conf",
                                        ok |-> ok])
       /\ IF ok THEN /\ etcConf' = NoFile
                     /\ pc' = "done"
                     /\ UNCHANGED <<failedMsg, warnings>>
                ELSE /\ UNCHANGED etcConf
                     /\ CleanupCatch(ExecError("rm -f /etc/wireguard/wg0.conf"))
  /\ UNCHANGED <<phase, runs, inputVars, textVars, iface, tmpConf, probeVars,
                 savedState, installed, ghostVars>>

(***************************************************************************)
(* The specifications.                                                     *)
(***************************************************************************)

\* A fresh runner: no interface, no file at either path, no step run yet. The
\* umask of the runner leaves the owner's read and write bits (022 by default).
Init ==
  /\ phase = "none" /\ pc = "done" /\ runs = 0
  /\ wgConfig = <<>> /\ allowedIps = <<>> /\ keepDnsInput = ""
  /\ configContent = <<>> /\ decoded = <<>> /\ overridden = <<>>
  /\ iface = FALSE /\ etcConf = NoFile /\ tmpConf = NoFile
  /\ interfaceExists = FALSE /\ configExists = FALSE
  /\ commands = <<>> /\ failedMsg = NoMessage /\ warnings = <<>>
  /\ savedState = FALSE /\ honest = TRUE /\ installed = <<>>
  /\ plain = <<>> /\ encoded = FALSE /\ pass = 1 /\ firstOut = <<>>

MainNext ==
  \/ AptUpdate \/ AptInstall \/ Decode \/ Override \/ StripDns \/ Mkdir
  \/ WriteTemp \/ Mv \/ Chmod \/ WgUp \/ WgShow \/ SaveState

CleanupNext == ProbeInterface \/ Down \/ ProbeFile \/ Rm

Next == BeginMain \/ BeginCleanup \/ MainNext \/ CleanupNext

\* Any sequence of setup and teardown steps on one runner
Spec == Init /\ [][Next]_vars

\* The transformer alone, at main.ts line 38, on every input of the bounded sets
TransformInit ==
  /\ phase = "main" /\ pc = "decode" /\ runs = 1
  /\ plain \in PlainTexts
  /\ encoded \in BOOLEAN
  /\ wgConfig = IF encoded THEN Base64Encode(plain) ELSE plain
  /\ allowedIps \in Overrides
  /\ keepDnsInput \in KeepDnsInputs
  /\ configContent = <<>> /\ decoded = <<>> /\ overridden = <<>>
  /\ iface = FALSE /\ etcConf = NoFile /\ tmpConf = NoFile
  /\ interfaceExists = FALSE /\ configExists = FALSE
  /\ commands = <<>> /\ failedMsg = NoMessage /\ warnings = <<>>
  /\ savedState = FALSE /\ honest = TRUE /\ installed = <<>>
  /\ pass = 1 /\ firstOut = <<>>

\* The transformer is given its own output, with the same override and flag
Reapply ==
  /\ phase = "main" /\ pc = "mkdir" /\ pass = 1
  /\ wgConfig' = configContent
  /\ pass' = 2
  /\ pc' = "decode"
  /\ configContent' = <<>> /\ decoded' = <<>> /\ overridden' = <<>>
  /\ UNCHANGED <<phase, runs, allowedIps, keepDnsInput, hostVars, probeVars, commands,
                 failedMsg, warnings, savedState, installed, plain, encoded, firstOut>>

TransformNext == Decode \/ Override \/ StripDns \/ Reapply

TransformSpec == TransformInit /\ [][TransformNext]_vars

(***************************************************************************)
(* The properties.                                                         *)
(***************************************************************************)

DownCmd == "wg-quick down wg0"
RmCmd == "rm -f /etc/wireguard/wg0.conf"
FileProbeCmd == "test -f /etc/wireguard/wg0.conf"

\* the positions of the commands of this step that failed
Failing == {i \in 1..Len(commands) : ~commands[i].ok}

\* the positions of the failed down and rm commands of this step (a probe's
\* non-zero exit is its answer, not a failure that is reported)
FailedTeardownCmds ==
  {i \in 1..Len(commands) : commands[i].cmd \in {DownCmd, RmCmd} /\ ~commands[i].ok}

Ran(cmd, ok) == \E i \in 1..Len(commands) : commands[i] = [cmd |-> cmd, ok |-> ok]

CleanupDone == phase = "cleanup" /\ pc = "done"

\* C1: whatever the probes, `wg-quick down` and `rm` do, the teardown step goes on
\* until it returns, after at most its four commands; it never calls setFailed, and
\* it logs exactly one warning for each failed command.
C1_TeardownNeverFatal ==
  phase = "cleanup" =>
    /\ failedMsg = NoMessage
    /\ Len(warnings) = Cardinality(FailedTeardownCmds)
    /\ Len(commands) <= 4
    /\ pc # "done" => ENABLED CleanupNext

\* C1 witness: a teardown that returned after both `wg-quick down` and `rm` failed
C1_Witness ==
  /\ CleanupDone
  /\ Ran(DownCmd, FALSE) /\ Ran(RmCmd, FALSE)
  /\ Len(warnings) = 2

\* C2: when a teardown step has returned, its probes having reported the true state
\* and neither `wg-quick down` nor `rm` having failed, wg0 does not exist and
\* /etc/wireguard/wg0.conf does not exist, whatever the setup steps before it did.
C2_TeardownRemovesAll ==
  (CleanupDone /\ honest /\ FailedTeardownCmds = {}) =>
    (~iface /\ ~etcConf.exists)

\* C2 witness: a teardown that found the interface and the file of an earlier setup
\* and removed both
C2_Witness ==
  /\ CleanupDone /\ honest
  /\ Ran(DownCmd, TRUE) /\ Ran(RmCmd, TRUE)
  /\ installed # <<>>
  /\ ~iface /\ ~etcConf.exists

\* C3: in every state, /etc/wireguard/wg0.conf is absent, or it holds exactly the
\* EffectiveConfig of the setup step that last moved a file there and has mode 0600.
C3_ConfigFileInvariant ==
  etcConf.exists => (etcConf.content = installed /\ etcConf.mode = OwnerRW)

\* C3 witness: a second setup step has moved its file over the first one's and has
\* not yet run chmod
C3_Witness ==
  /\ phase = "main" /\ pc = "chmod" /\ runs >= 2
  /\ etcConf.exists /\ etcConf.content # <<>>
  /\ etcConf.content # wgConfig

\* C4: a setup step is marked failed exactly when a step of it failed; then it has
\* returned, the message carries the error of the missing input (and no command was
\* invoked) or of the failed command, which is the last command invoked, no teardown
\* command was invoked and the wireguard-started marker is not recorded.
C4_SetupFailFast ==
  phase = "main" =>
    /\ failedMsg = NoMessage => Failing = {}
    /\ \A i \in 1..Len(commands) : commands[i].cmd \notin {DownCmd, RmCmd}
    /\ failedMsg # NoMessage =>
         /\ pc = "done"
         /\ ~savedState
         /\ IF wgConfig = <<>>
            THEN commands = <<>> /\ failedMsg = <<"Action failed: ", InputRequired>>
            ELSE /\ Failing = {Len(commands)}
                 /\ failedMsg =
                      <<"Action failed: ", ExecError(commands[Len(commands)].cmd)>>

\* C4 witness: a setup step that failed at the mv
C4_Witness ==
  /\ phase = "main" /\ pc = "done"
  /\ failedMsg # NoMessage
  /\ Len(commands) = 5 /\ ~commands[5].ok
  /\ tmpConf.exists

\* C5: when `wg-quick down` failed in a teardown step that has returned, the file
\* probe ran after it and, the file found, `rm` was invoked; when that `rm`
\* succeeded, exactly one warning is logged, the file is absent and setFailed was
\* not called.
C5_DownFailureGoesOn ==
  (CleanupDone /\ Ran(DownCmd, FALSE)) =>
    /\ \E i, j \in 1..Len(commands) :
         i < j /\ commands[i].cmd = DownCmd /\ commands[j].cmd = FileProbeCmd
    /\ configExists => (Ran(RmCmd, TRUE) \/ Ran(RmCmd, FALSE))
    /\ Ran(RmCmd, TRUE) =>
         (Len(warnings) = 1 /\ ~etcConf.exists /\ failedMsg = NoMessage)

\* C5 witness: scenario D, the down command failed and the file was deleted
C5_Witness ==
  /\ CleanupDone
  /\ Ran(DownCmd, FALSE) /\ Ran(RmCmd, TRUE)
  /\ Len(warnings) = 1 /\ ~etcConf.exists

\* C6 (as claimed): when a teardown step whose probes were true and whose commands
\* all succeeded has returned, neither /etc/wireguard/wg0.conf nor /tmp/wg0.conf
\* holds a configuration written by a setup step.
C6_NoConfigLeftBehind ==
  (CleanupDone /\ honest /\ FailedTeardownCmds = {}) =>
    /\ ~etcConf.exists
    /\ ~(tmpConf.exists /\ tmpConf.content # <<>>)

RECURSIVE SplitLines(_)
\* The lines of a text, each with the line terminator that ends it (none for a
\* last line that is not terminated)
SplitLines(s) ==
  LET e == LineEnd(s, 1)
  IN  IF s = <<>> THEN <<>>
      ELSE IF e > Len(s) THEN <<[text |-> s, term |-> <<>>]>>
      ELSE <<[text |-> SubSeq(s, 1, e - 1), term |-> <<s[e]>>]>>
           \o SplitLines(Drop(s, e))

RECURSIVE JoinLines(_)
JoinLines(ls) ==
  IF ls = <<>> THEN <<>>
  ELSE Head(ls).text \o Head(ls).term \o JoinLines(Tail(ls))

\* The line is an assignment `key = value`: the key, white space, then "="
IsAssignment(text, key) ==
  /\ StartsWithAt(text, 1, key)
  /\ LET j == SkipWhiteSpace(text, Len(key) + 1)
     IN  j <= Len(text) /\ text[j] = "="

\* the first line of ls that is an assignment of key, 0 when none is
FirstAssignment(ls, key) ==
  IF \E i \in 1..Len(ls) : IsAssignment(ls[i].text, key)
  THEN CHOOSE i \in 1..Len(ls) :
         /\ IsAssignment(ls[i].text, key)
         /\ \A k \in 1..(i - 1) : ~IsAssignment(ls[k].text, key)
  ELSE 0

\* What C8 says of the override step: the first AllowedIPs line becomes
\* "AllowedIPs = " and the override, character for character; nothing else changes
VerbatimOverride(content, override) ==
  LET ls == SplitLines(content)
      i == FirstAssignment(ls, KeyAllowedIPs)
  IN  IF override = <<>> \/ i = 0 THEN content
      ELSE JoinLines([ls EXCEPT ![i].text = AllowedIPsPrefix \o override])

\* What C9 says of the DNS step: every DNS line goes, with its line terminator, and
\* every other line stays
WithoutDnsLines(content) ==
  JoinLines(SelectSeq(SplitLines(content), LAMBDA l : ~IsAssignment(l.text, KeyDNS)))

HasDnsLine(content) ==
  \E i \in 1..Len(SplitLines(content)) : IsAssignment(SplitLines(content)[i].text, KeyDNS)

\* C7 (as claimed): the transformer applied to its own output, with the same override
\* and keep-dns flag, gives that output again.
C7_TransformIdempotent ==
  (phase = "main" /\ pass = 2 /\ pc = "mkdir") => configContent = firstOut

\* C8 (as claimed): after the override step the working content is the content
\* before it with the first AllowedIPs line replaced by "AllowedIPs = " and the
\* override value copied verbatim, and is unchanged when the override is empty or no
\* line matches.
C8_OverrideVerbatim ==
  (phase = "main" /\ pc \in {"strip", "mkdir"}) =>
    overridden = VerbatimOverride(decoded, allowedIps)

\* C9 (as claimed): when keep-dns is not "true" the output has no DNS line and is the
\* content before the DNS step without its DNS lines, each removed with its line
\* terminator; when keep-dns is "true" the DNS step changes nothing.
C9_DnsStripped ==
  (phase = "main" /\ pc = "mkdir") =>
    IF keepDnsInput # "true"
    THEN ~HasDnsLine(configContent) /\ configContent = WithoutDnsLines(overridden)
    ELSE configContent = overridden

\* C10: the decode step gives the decoded text when that text contains
\* "[Interface]" and the raw input otherwise; the base64 encoding of a plain text
\* that contains "[Interface]" decodes to that text, and the base64 encoding of a
\* text that lacks it is returned as it is.
C10_DecodeRoundTrip ==
  (phase = "main" /\ pass = 1 /\ pc # "decode" /\ plain # <<>>) =>
    /\ decoded = IF Includes(Utf8ToString(Base64Decode(wgConfig)), Marker)
                 THEN Utf8ToString(Base64Decode(wgConfig))
                 ELSE wgConfig
    /\ (encoded /\ Includes(plain, Marker)) => decoded = plain
    /\ (encoded /\ ~Includes(plain, Marker)) => decoded = wgConfig

\* C10 witness: an encoded configuration was decoded to the plain text
C10_Witness ==
  /\ phase = "main" /\ pass = 1 /\ pc = "override"
  /\ encoded /\ Includes(plain, Marker)
  /\ decoded = plain /\ decoded # wgConfig

\* the side-effecting commands of a setup step, in the order of main.ts
SetupOrder ==
  <<"apt-get update", "apt-get install", "mkdir -p /etc/wireguard",
    "writeFileSync /tmp/wg0.conf", "mv /tmp/wg0.conf /etc/wireguard/wg0.conf",
    "chmod 600 /etc/wireguard/wg0.conf", "wg-quick up wg0", "wg show">>

UpCmd == "wg-quick up wg0"

\* C11: the commands a setup step has invoked are the first ones of the fixed order
\* (index refresh, install, mkdir, staging write, mv, chmod, wg-quick up, wg show),
\* each invoked only after all before it succeeded; when `wg-quick up` is about to
\* be or has been invoked, /etc/wireguard/wg0.conf holds the EffectiveConfig of
\* this step with mode 0600; the marker is recorded only after `wg-quick up` (and
\* every other command) succeeded.
C11_SetupOrder ==
  phase = "main" =>
    /\ Len(commands) <= Len(SetupOrder)
    /\ \A i \in 1..Len(commands) :
         /\ commands[i].cmd = SetupOrder[i]
         /\ i < Len(commands) => commands[i].ok
    /\ (pc = "wg-up" \/ Ran(UpCmd, TRUE) \/ Ran(UpCmd, FALSE)) =>
         /\ etcConf.exists
         /\ etcConf.content = Transform(wgConfig, allowedIps, keepDnsInput)
         /\ etcConf.mode = OwnerRW
    /\ savedState =>
         /\ Ran(UpCmd, TRUE)
         /\ Len(commands) = Len(SetupOrder)
         /\ Failing = {}

\* C11 witness: a setup step that ran all its commands and recorded the marker
C11_Witness ==
  /\ phase = "main" /\ pc = "done"
  /\ savedState /\ Ran(UpCmd, TRUE)
  /\ Len(commands) = Len(SetupOrder)
  /\ iface /\ etcConf.exists

====
